---- MODULE Spec2Model ----
(***************************************************************************)
(* ATR trailing-stop calculator (stoploss-ATR.py): the cached bar-series   *)
(* fetcher, the True Range / ATR computation, the stop derivation, the     *)
(* session watchlist and the button-driven analysis loop.                  *)
(*                                                                         *)
(* Numbers.  Python floats are modelled as exact rationals <<n, d>> with   *)
(* d > 0, and the float NaN as the empty tuple; rounding error is not      *)
(* modelled.  Time is counted in tenths of a second.                       *)
(***************************************************************************)
EXTENDS Integers, Sequences, FiniteSets, TLC

VARIABLES
    tickers,          \* st.session_state.tickers
    default_tickers,  \* the module-level list default_tickers
    lastOp,           \* what the last sidebar handler did
    cache,            \* st.cache_data store of fetch_ticker_data: key -> entry
    clock,            \* wall clock, in ticks
    fetchLog,         \* history of the calls of fetch_ticker_data
    pc,               \* position of the script: "idle", "loop", "done"
    idx,              \* loop index of the analysis loop (entries processed)
    results,          \* the list results of the running analysis
    warnings,         \* st.warning / st.error messages emitted by the run
    progress,         \* values given to the progress bar, in order
    multiplier,       \* sidebar slider "ATR Multiplier"
    period,           \* sidebar slider "ATR Period (days)"
    runs,             \* analyses started so far
    outcome,          \* final branch of a run: "table", "no_data", "none"
    data,             \* calculator input: the bar series
    calc              \* calculator output: true_range, atr, result

vars == <<tickers, default_tickers, lastOp, cache, clock, fetchLog, pc, idx,
          results, warnings, progress, multiplier, period, runs, outcome,
          data, calc>>

watchVars == <<tickers, default_tickers, lastOp>>
fetchVars == <<cache, clock, fetchLog>>
pipeVars  == <<pc, idx, results, warnings, progress, multiplier, period,
               runs, outcome>>
calcVars  == <<data, calc>>

(***************************************************************************)
(* Float arithmetic                                                        *)
(***************************************************************************)
NaN == <<>>

Num(n) == <<n, 1>>

IsNaN(x) == x = NaN

\* a = b as numbers (NaN equals nothing, itself included)
NumEq(a, b) == ~IsNaN(a) /\ ~IsNaN(b) /\ a[1] * b[2] = b[1] * a[2]

NumLess(a, b) == ~IsNaN(a) /\ ~IsNaN(b) /\ a[1] * b[2] < b[1] * a[2]

FSub(a, b) ==
    IF IsNaN(a) \/ IsNaN(b) THEN NaN
    ELSE <<a[1] * b[2] - b[1] * a[2], a[2] * b[2]>>

FAdd(a, b) ==
    IF IsNaN(a) \/ IsNaN(b) THEN NaN
    ELSE <<a[1] * b[2] + b[1] * a[2], a[2] * b[2]>>

FMul(a, b) ==
    IF IsNaN(a) \/ IsNaN(b) THEN NaN ELSE <<a[1] * b[1], a[2] * b[2]>>

\* a / b for b # 0 (Python raises ZeroDivisionError before this is used)
FDiv(a, b) ==
    IF IsNaN(a) \/ IsNaN(b) THEN NaN
    ELSE IF b[1] > 0 THEN <<a[1] * b[2], a[2] * b[1]>>
    ELSE <<-(a[1] * b[2]), a[2] * (-b[1])>>

IsZero(a) == ~IsNaN(a) /\ a[1] = 0

\* np.abs
NpAbs(a) == IF IsNaN(a) THEN NaN ELSE IF a[1] < 0 THEN <<-a[1], a[2]>> ELSE a

\* np.maximum propagates NaN
NpMaximum(a, b) ==
    IF IsNaN(a) \/ IsNaN(b) THEN NaN
    ELSE IF a[1] * b[2] >= b[1] * a[2] THEN a ELSE b

(***************************************************************************)
(* Bar series.  A bar is [High, Low, Close]; a DataFrame is a sequence of  *)
(* bars, the empty DataFrame the empty sequence.                           *)
(***************************************************************************)
Bar(h, l, c) == [High |-> Num(h), Low |-> Num(l), Close |-> Num(c)]

EmptyFrame == <<>>

\* data['Close'].shift(): the previous row's Close, NaN on the first row
ShiftedClose(df, i) == IF i = 1 THEN NaN ELSE df[i - 1].Close

\* lines 40-43
TrueRange(df) ==
    [i \in 1..Len(df) |->
        LET high_low   == FSub(df[i].High, df[i].Low)
            high_close == NpAbs(FSub(df[i].High, ShiftedClose(df, i)))
            low_close  == NpAbs(FSub(df[i].Low, ShiftedClose(df, i)))
        IN  NpMaximum(high_low, NpMaximum(high_close, low_close))]

RECURSIVE SumValid(_, _, _)
\* sum of the non-NaN values of s[lo..hi]
SumValid(s, lo, hi) ==
    IF lo > hi THEN Num(0)
    ELSE IF IsNaN(s[hi]) THEN SumValid(s, lo, hi - 1)
    ELSE FAdd(SumValid(s, lo, hi - 1), s[hi])

CountValid(s, lo, hi) == Cardinality({j \in lo..hi : ~IsNaN(s[j])})

\* line 44: rolling(window, min_periods=1).mean() averages the non-NaN
\* values of the window and is NaN when there are fewer than one.
RollingMean(s, window) ==
    [i \in 1..Len(s) |->
        LET lo == IF i - window + 1 < 1 THEN 1 ELSE i - window + 1
            n  == CountValid(s, lo, i)
        IN  IF n < 1 THEN NaN
            ELSE FDiv(SumValid(s, lo, i), Num(n))]

\* Outcome of the body of calculate_atr_trailing_stop on fetched data:
\* kind "none" (line 37), "error" (lines 57-59) or "result" (lines 51-56).
NoCalc == [kind |-> "none", true_range |-> <<>>, atr |-> <<>>,
           price |-> NaN, current_atr |-> NaN, stop |-> NaN, pct |-> NaN]

Calculate(df, mult, per) ==
    IF df = EmptyFrame THEN NoCalc
    ELSE
        LET true_range    == TrueRange(df)
            atr           == RollingMean(true_range, per)
            current_price == df[Len(df)].Close
            current_atr   == atr[Len(df)]
            stop_loss     == FSub(current_price, FMul(mult, current_atr))
            base          == [NoCalc EXCEPT !.true_range = true_range,
                                            !.atr = atr,
                                            !.price = current_price,
                                            !.current_atr = current_atr,
                                            !.stop = stop_loss]
        IN  IF IsZero(current_price)
            THEN [base EXCEPT !.kind = "error"]      \* ZeroDivisionError
            ELSE [base EXCEPT !.kind = "result",
                              !.pct = FMul(FDiv(FSub(current_price, stop_loss),
                                                current_price), Num(100))]

(***************************************************************************)
(* Calculator in isolation: calculate_atr_trailing_stop applied to a bar   *)
(* series that the fetch returned.                                         *)
(***************************************************************************)
MaxBars == 3

MaxPeriod == 3

Prices == {0, 8, 10, 12}

Bars == {Bar(h, l, c) : <<h, l, c>> \in
            {t \in Prices \X Prices \X Prices : t[2] <= t[3] /\ t[3] <= t[1]}}

RECURSIVE SeqsUpTo(_, _)
SeqsUpTo(S, n) ==
    IF n = 0 THEN {<<>>}
    ELSE LET shorter == SeqsUpTo(S, n - 1)
         IN  shorter \cup {Append(s, x) : s \in {t \in shorter : Len(t) = n - 1},
                                          x \in S}

\* slider values 1.5 and 4.0 (line 70)
Multipliers == {<<3, 2>>, Num(4)}

DefaultTickers ==
    << <<"SGLN.L", "Physical Gold ETF">>,
       <<"IWRD.L", "iShares World ETF">>,
       <<"VWRL.L", "Vanguard World ETF">>,
       <<"IUKD.L", "UKD ETF">>,
       <<"BCOG.L", "Commodities ETF">> >>

\* fetchLog: cur is the fetch just made, prev the fetch made right before
\* it if that was for the same symbol, call the last fetch of cur's symbol
\* before cur that went to the provider (each a sequence of at most one
\* record); called keeps the provider calls per symbol.
NoFetches == [cur |-> <<>>, prev |-> <<>>, call |-> <<>>, called |-> <<>>]

Lookup(map, k) == IF k \in DOMAIN map THEN <<map[k]>> ELSE <<>>

Logged(log, rec) ==
    [cur    |-> <<rec>>,
     prev   |-> IF Len(log.cur) = 1 /\ log.cur[1].ticker = rec.ticker
                THEN log.cur ELSE <<>>,
     call   |-> Lookup(log.called, rec.ticker),
     called |-> IF rec.external
                THEN (rec.ticker :> [done |-> rec.done, value |-> rec.value,
                                     raised |-> rec.raised]) @@ log.called
                ELSE log.called]

\* lastOp: the handler that ran last, its inputs and the list it found
NoOp == [op |-> "none", index |-> 0, ticker |-> "", desc |-> "", before |-> <<>>]

CalcInit ==
    /\ data \in SeqsUpTo(Bars, MaxBars)
    /\ multiplier \in Multipliers
    /\ period \in 1..MaxPeriod
    /\ calc = NoCalc
    /\ pc = "call"
    /\ tickers = DefaultTickers
    /\ default_tickers = DefaultTickers
    /\ lastOp = NoOp
    /\ cache = <<>>
    /\ clock = 0
    /\ fetchLog = NoFetches
    /\ idx = 0
    /\ results = <<>>
    /\ warnings = <<>>
    /\ progress = <<>>
    /\ runs = 0
    /\ outcome = "none"

\* lines 36-59 on the fetched data
CalcStep ==
    /\ pc = "call"
    /\ calc' = Calculate(data, multiplier, period)
    /\ pc' = "returned"
    /\ UNCHANGED <<watchVars, fetchVars, idx, results, warnings, progress,
                   multiplier, period, runs, outcome, data>>

CalcNext == CalcStep

CalcSpec == CalcInit /\ [][CalcNext]_vars

(***************************************************************************)
(* What the specification says the calculator computes                     *)
(***************************************************************************)
SpecTrueRange(df, i) ==
    IF i = 1 THEN FSub(df[1].High, df[1].Low)
    ELSE NpMaximum(FSub(df[i].High, df[i].Low),
                   NpMaximum(NpAbs(FSub(df[i].High, df[i - 1].Close)),
                             NpAbs(FSub(df[i].Low, df[i - 1].Close))))

RECURSIVE SpecSum(_, _, _)
SpecSum(df, lo, hi) ==
    IF lo > hi THEN Num(0)
    ELSE FAdd(SpecSum(df, lo, hi - 1), SpecTrueRange(df, hi))

SpecAtr(df, window, i) ==
    LET lo == IF i - window + 1 < 1 THEN 1 ELSE i - window + 1
    IN  FDiv(SpecSum(df, lo, i), Num(i - lo + 1))

ExampleBars == <<Bar(10, 10, 10), Bar(10, 10, 10), Bar(12, 8, 10)>>

\* C3: True Range is defined for every bar of a non-empty series; for bar
\* i >= 1 it is max(H-L, |H-prevC|, |L-prevC|) and for the first bar it is
\* H-L, never undefined.
C3_TrueRangeDefined ==
    (pc = "returned" /\ data # EmptyFrame) =>
        \A i \in 1..Len(data) :
            NumEq(calc.true_range[i], SpecTrueRange(data, i))

\* C4: ATR at bar i is the mean of the True Range of bars
\* max(0, i-window+1)..i with the first bar's True Range counted; the
\* worked example gives ATR 4/3, stop 14/3 (4.667) and 160/3 % (53.33).
C4_AtrRelaxedMean ==
    (pc = "returned" /\ data # EmptyFrame) =>
        /\ \A i \in 1..Len(data) :
              NumEq(calc.atr[i], SpecAtr(data, period, i))
        /\ (data = ExampleBars /\ period = 3 /\ multiplier = Num(4)) =>
              /\ NumEq(calc.current_atr, <<4, 3>>)
              /\ NumEq(calc.stop, <<14, 3>>)
              /\ NumEq(calc.pct, <<160, 3>>)

\* C5: with currentPrice > 0 the result has stopPrice = price - m*atr and
\* percentBelow = m*atr/price*100; with currentPrice = 0 there is no result
\* but a reported computation failure; no result carries NaN.
C5_StopAndGuard ==
    (pc = "returned" /\ data # EmptyFrame) =>
        /\ NumLess(Num(0), calc.price) =>
              /\ calc.kind = "result"
              /\ NumEq(calc.stop,
                       FSub(calc.price, FMul(multiplier, calc.current_atr)))
              /\ NumEq(calc.pct,
                       FMul(FDiv(FMul(multiplier, calc.current_atr), calc.price),
                            Num(100)))
        /\ IsZero(calc.price) => calc.kind = "error"
        /\ calc.kind = "result" => ~IsNaN(calc.stop) /\ ~IsNaN(calc.pct)

(***************************************************************************)
(* Watchlist: the sidebar handlers on st.session_state.tickers.  Every     *)
(* click starts a script run, which rebinds default_tickers (line 74)      *)
(* before the clicked handler runs.                                        *)
(***************************************************************************)
MaxTickers == 6

\* text typed into "Ticker Symbol" and "Description"
TickerInputs == {"", "vod.l", "Vod.L", "SGLN.L"}

DescInputs == {"", "Vodafone"}

\* str.upper() on the symbols above
Upper(s) ==
    CASE s = "vod.l" -> "VOD.L"
      [] s = "Vod.L" -> "VOD.L"
      [] OTHER -> s

\* The mutant stores the symbol as typed.
NewEntryAsTyped(new_ticker, new_description) == <<new_ticker, new_description>>

\* line 94: the tuple that is appended
NewEntry(new_ticker, new_description) == <<Upper(new_ticker), new_description>>

\* The mutant removes the last entry whatever the index.
PopLast(list, i) == SubSeq(list, 1, Len(list) - 1)

\* list.pop(i), i counted from 0 and in range
Pop(list, i) == SubSeq(list, 1, i) \o SubSeq(list, i + 2, Len(list))

\* The mutant keeps what was added after the defaults.
ResetKeepingAdded(current, defaults) ==
    IF Len(current) > Len(defaults)
    THEN defaults \o SubSeq(current, Len(defaults) + 1, Len(current))
    ELSE defaults

\* line 113: default_tickers.copy()
ResetValue(current, defaults) == defaults

\* lines 101-105: one remove button per enumerate() index
RemoveButtons(list) == 0..(Len(list) - 1)

WatchInit ==
    /\ default_tickers = DefaultTickers
    /\ tickers = DefaultTickers              \* line 86
    /\ lastOp = NoOp
    /\ cache = <<>>
    /\ clock = 0
    /\ fetchLog = NoFetches
    /\ pc = "idle"
    /\ idx = 0
    /\ results = <<>>
    /\ warnings = <<>>
    /\ progress = <<>>
    /\ multiplier = Num(4)
    /\ period = 28
    /\ runs = 0
    /\ outcome = "none"
    /\ data = EmptyFrame
    /\ calc = NoCalc

\* lines 92-96: the "Add Ticker" button
AddTicker(new_ticker, new_description) ==
    /\ pc = "idle"
    /\ Len(tickers) < MaxTickers
    /\ default_tickers' = DefaultTickers
    /\ IF new_ticker # "" /\ new_description # ""
       THEN /\ tickers' = Append(tickers, NewEntry(new_ticker, new_description))
            /\ lastOp' = [op |-> "added", index |-> 0,
                          ticker |-> new_ticker, desc |-> new_description,
                          before |-> tickers]
       ELSE /\ tickers' = tickers
            /\ lastOp' = [op |-> "add_ignored", index |-> 0,
                          ticker |-> new_ticker, desc |-> new_description,
                          before |-> tickers]
    /\ UNCHANGED <<fetchVars, pipeVars, calcVars>>

\* lines 100-110: a remove button; pop raises IndexError out of range
RemoveTicker(i) ==
    /\ pc = "idle"
    /\ i \in RemoveButtons(tickers)
    /\ default_tickers' = DefaultTickers
    /\ IF 0 <= i /\ i < Len(tickers)
       THEN /\ tickers' = Pop(tickers, i)
            /\ lastOp' = [op |-> "removed", index |-> i,
                          ticker |-> "", desc |-> "", before |-> tickers]
       ELSE /\ tickers' = tickers
            /\ lastOp' = [op |-> "index_error", index |-> i,
                          ticker |-> "", desc |-> "", before |-> tickers]
    /\ UNCHANGED <<fetchVars, pipeVars, calcVars>>

\* lines 112-114: the "Reset to Defaults" button
ResetToDefaults ==
    /\ pc = "idle"
    /\ default_tickers' = DefaultTickers
    /\ tickers' = ResetValue(tickers, default_tickers')
    /\ lastOp' = [op |-> "reset", index |-> 0, ticker |-> "", desc |-> "", before |-> tickers]
    /\ UNCHANGED <<fetchVars, pipeVars, calcVars>>

WatchNext ==
    \/ \E t \in TickerInputs, d \in DescInputs : AddTicker(t, d)
    \/ \E i \in 0..MaxTickers : RemoveTicker(i)
    \/ ResetToDefaults

WatchSpec == WatchInit /\ [][WatchNext]_vars

\* C6: whatever was added or removed before, a reset leaves the watchlist
\* equal to the five initial entries in their order, and the default list
\* itself is never changed.
C6_ResetExact ==
    /\ lastOp.op = "reset" =>
            /\ Len(tickers) = 5
            /\ tickers = << <<"SGLN.L", "Physical Gold ETF">>,
                           <<"IWRD.L", "iShares World ETF">>,
                           <<"VWRL.L", "Vanguard World ETF">>,
                           <<"IUKD.L", "UKD ETF">>,
                           <<"BCOG.L", "Commodities ETF">> >>
    /\ default_tickers = DefaultTickers

\* a reset of a list that had lost its first entry and gained two
C6_Witness ==
    /\ lastOp.op = "reset"
    /\ Len(lastOp.before) = 6
    /\ lastOp.before[1][1] = "IWRD.L"
    /\ lastOp.before[6][1] = "VOD.L"
    /\ tickers = DefaultTickers

C8_AddAppends ==
    /\ lastOp.op = "added" =>
            /\ lastOp.ticker # "" /\ lastOp.desc # ""
            /\ Len(tickers) = Len(lastOp.before) + 1
            /\ SubSeq(tickers, 1, Len(lastOp.before)) = lastOp.before
            /\ tickers[Len(tickers)][2] = lastOp.desc
            /\ tickers[Len(tickers)][1] =
                  (IF lastOp.ticker \in {"vod.l", "Vod.L"} THEN "VOD.L"
                   ELSE lastOp.ticker)
    /\ lastOp.op = "add_ignored" =>
            /\ lastOp.ticker = "" \/ lastOp.desc = ""
            /\ tickers = lastOp.before
    /\ lastOp.op \in {"added", "add_ignored"} =>
            (lastOp.ticker # "" /\ lastOp.desc # "") = (lastOp.op = "added")

\* a lower-case symbol was appended in upper case, and a second SGLN.L
\* entry was appended while the first is still listed
C8_Witness ==
    /\ lastOp.op = "added"
    /\ lastOp.ticker = "SGLN.L"
    /\ Len(tickers) = 6
    /\ tickers[1][1] = "SGLN.L"
    /\ tickers[5][1] = "VOD.L"
    /\ tickers[6][1] = "SGLN.L"

(***************************************************************************)
(* Fetcher: fetch_ticker_data under @st.cache_data(ttl=3600).  The store   *)
(* maps the call's arguments to the returned frame; an entry is served     *)
(* while it is younger than the TTL and never refreshed by a read.         *)
(***************************************************************************)
\* ttl=3600 seconds, line 17
ttl == 3600

\* the TTL in ticks of a tenth of a second
TTL == ttl * 10

\* time.sleep(0.5), line 21
FetchDelay == 5

\* time.sleep(0.3), line 131
EntryDelay == 3

\* The mutant hands the ATR period to the fetch as its lookback.
FetchArgsAtrPeriod(ticker, mult, per) == <<ticker, ToString(per)>>

\* line 34: the arguments calculate_atr_trailing_stop gives the fetch
FetchArgs(ticker, mult, per) == <<ticker, "6mo">>

\* line 17: a stored entry younger than the TTL
IsFresh(store, key, now) ==
    key \in DOMAIN store /\ now - store[key].stored < TTL

\* The mutant lets a provider error escape, so nothing is stored for it.
StoreUnlessRaised(store, key, o, now) ==
    IF o.raise THEN store
    ELSE (key :> [value |-> o.frame, stored |-> now, warned |-> FALSE]) @@ store

\* lines 20-29 under line 17: whatever the body returns is stored, the
\* empty frame of the except branch included
Store(store, key, o, now) ==
    (key :> [value |-> o.frame, stored |-> now, warned |-> o.raise]) @@ store

\* frames the provider returns: none, three good bars, a last close of 0
ProviderFrames == {EmptyFrame, ExampleBars, <<Bar(8, 0, 8), Bar(8, 0, 0)>>}

\* what yf.download does: raise, or return a frame (possibly empty)
ProviderOutcomes ==
    {[raise |-> TRUE, frame |-> EmptyFrame]} \cup
    {[raise |-> FALSE, frame |-> f] : f \in ProviderFrames}

\* fetch_ticker_data(key) at time now; o is what the provider would do and
\* replay whether a stored st.warning is shown again on a hit
Fetch(store, now, key, o, replay) ==
    IF IsFresh(store, key, now)
    THEN [value |-> store[key].value, store |-> store, now |-> now,
          external |-> FALSE, raised |-> FALSE,
          warn |-> store[key].warned /\ replay]
    ELSE [value |-> o.frame,
          store |-> Store(store, key, o, now + FetchDelay),
          now |-> now + FetchDelay,
          external |-> TRUE, raised |-> o.raise, warn |-> o.raise]

(***************************************************************************)
(* Analysis run: the "Calculate ATR Trailing Stops" button, lines 119-179  *)
(***************************************************************************)
MaxEntries == 2

MaxRuns == 2

MaxTicks == 1

\* the next click comes just before what the last run stored expires
TickStep == TTL - (FetchDelay + EntryDelay)

\* slider values 7 and 28 (line 71)
Periods == {7, 28}

\* watchlists that adds and removes lead to: SGLN.L first, then SGLN.L
\* again or VOD.L
SampleEntries == {<<"SGLN.L", "Physical Gold ETF">>, <<"VOD.L", "Vodafone">>}

Watchlists ==
    {s \in SeqsUpTo(SampleEntries, MaxEntries) :
        s = <<>> \/ s[1] = <<"SGLN.L", "Physical Gold ETF">>}

\* The mutant reports idx / n.
ProgressBehind(i, n) == <<i, n>>

\* line 130: (idx + 1) / len(tickers)
ProgressValue(i, n) == <<i + 1, n>>

\* Calculate, tabulated over what a run can hand it
CalcOf ==
    [df \in ProviderFrames, m \in Multipliers, p \in Periods |->
        Calculate(df, m, p)]

Init ==
    /\ default_tickers = DefaultTickers
    /\ tickers \in Watchlists
    /\ lastOp = NoOp
    /\ cache = <<>>
    /\ clock = 0
    /\ fetchLog = NoFetches
    /\ pc = "idle"
    /\ idx = 0
    /\ results = <<>>
    /\ warnings = <<>>
    /\ progress = <<>>
    /\ multiplier = Num(4)
    /\ period = 28
    /\ runs = 0
    /\ outcome = "none"
    /\ data = EmptyFrame
    /\ calc = NoCalc

\* lines 119-122: the click, with the sliders as they stand
StartRun(mult, per) ==
    /\ pc \in {"idle", "done"}
    /\ runs < MaxRuns
    /\ multiplier' = mult
    /\ period' = per
    /\ results' = <<>>
    /\ warnings' = <<>>
    /\ progress' = <<Num(0)>>
    /\ idx' = 0
    /\ runs' = runs + 1
    /\ outcome' = "none"
    /\ pc' = "loop"
    /\ UNCHANGED <<watchVars, fetchVars, calcVars>>

\* lines 124-131: one iteration of the loop
ProcessEntry(o, replay) ==
    /\ pc = "loop"
    /\ idx < Len(tickers)
    /\ LET ticker == tickers[idx + 1][1]
           desc   == tickers[idx + 1][2]
           key    == FetchArgs(ticker, multiplier, period)
           f      == Fetch(cache, clock, key, o, replay)
           c      == CalcOf[f.value, multiplier, period]
       IN  \* o and replay are read only where they matter
           /\ f.external \/ (o = [raise |-> FALSE, frame |-> EmptyFrame])
           /\ (f.external \/ ~cache[key].warned) => replay
           /\ cache' = f.store
           /\ fetchLog' = Logged(fetchLog,
                 [run |-> runs, pos |-> idx + 1, ticker |-> ticker,
                  mult |-> multiplier, per |-> period,
                  t |-> clock, done |-> f.now, value |-> f.value,
                  external |-> f.external, raised |-> f.raised,
                  kind |-> c.kind])
           /\ warnings' =
                 warnings
                 \o (IF f.warn THEN <<[ticker |-> ticker, kind |-> "warning"]>>
                     ELSE <<>>)
                 \o (IF c.kind = "error"
                     THEN <<[ticker |-> ticker, kind |-> "error"]>> ELSE <<>>)
           /\ results' =
                 IF c.kind = "result"
                 THEN Append(results,
                        [Ticker |-> ticker, Asset |-> desc, price |-> c.price,
                         atr |-> c.current_atr, stop |-> c.stop, pct |-> c.pct])
                 ELSE results
           /\ data' = f.value
           /\ calc' = c
           /\ clock' = f.now + EntryDelay
    /\ progress' = Append(progress, ProgressValue(idx, Len(tickers)))
    /\ idx' = idx + 1
    /\ UNCHANGED <<watchVars, pc, multiplier, period, runs, outcome>>

\* lines 133-179: the loop is over
FinishRun ==
    /\ pc = "loop"
    /\ idx = Len(tickers)
    /\ outcome' = IF results # <<>> THEN "table" ELSE "no_data"
    /\ pc' = "done"
    /\ UNCHANGED <<watchVars, fetchVars, calcVars, idx, results, warnings,
                   progress, multiplier, period, runs>>

\* time passes between two clicks
Tick ==
    /\ pc \in {"idle", "done"}
    /\ clock \div TickStep < MaxTicks
    /\ clock' = clock + TickStep
    /\ UNCHANGED <<watchVars, cache, fetchLog, pipeVars, calcVars>>

Step == \E o \in ProviderOutcomes, replay \in BOOLEAN : ProcessEntry(o, replay)

Next ==
    \/ \E mult \in Multipliers, per \in Periods : StartRun(mult, per)
    \/ Step
    \/ FinishRun
    \/ Tick

Spec == Init /\ [][Next]_vars

\* a started run is never suspended: the loop body and the code after it
\* run as soon as they can
FairSpec == Spec /\ WF_vars(Step) /\ WF_vars(FinishRun)

\* C1: a finished run has one result per entry that succeeded and one
\* warning per entry that failed, so results + warnings = entries.
C1_FailureIsolation ==
    pc = "done" => Len(results) + Len(warnings) = Len(tickers)

\* C2 as stated: a fetch less than the TTL after the previous fetch of the
\* same key returns the same content and makes no provider call.
C2_AnyTwoFetches ==
    (Len(fetchLog.cur) = 1 /\ Len(fetchLog.prev) = 1) =>
        LET c == fetchLog.cur[1]
            p == fetchLog.prev[1]
        IN  c.t - p.t < TTL => (~c.external /\ c.value = p.value)

\* C2: a fetch that starts less than the TTL after the last provider call
\* for the same (symbol, lookback) returned gives that call's content and
\* makes no provider call, whatever the multiplier and ATR period of the two
\* runs; with no such call, or the TTL over, it calls the provider.
C2_CacheTTL ==
    Len(fetchLog.cur) = 1 =>
        LET c == fetchLog.cur[1]
            x == fetchLog.call
        IN  /\ (Len(x) = 1 /\ c.t - x[1].done < TTL) =>
                  (~c.external /\ c.value = x[1].value)
            /\ (Len(x) = 0 \/ c.t - x[1].done >= TTL) => c.external

\* the run after the provider call, half a TTL later and with another
\* multiplier and another period, is served the stored bars
C2_Witness ==
    /\ Len(fetchLog.cur) = 1
    /\ Len(fetchLog.prev) = 1
    /\ fetchLog.prev[1].external
    /\ ~fetchLog.cur[1].external
    /\ fetchLog.cur[1].value = ExampleBars
    /\ fetchLog.cur[1].run = fetchLog.prev[1].run + 1
    /\ fetchLog.cur[1].mult # fetchLog.prev[1].mult
    /\ fetchLog.cur[1].per # fetchLog.prev[1].per
    /\ fetchLog.cur[1].t - fetchLog.prev[1].done >= TickStep

\* C9: the run handles the entries one at a time in watchlist order, emits
\* k/n right after the k-th entry whether it succeeded or not, so the
\* fractions increase strictly; it can always go on until all n entries are
\* done, ends with progress 1, and with no result reports "no data".
C9_ProgressState ==
    LET n == Len(tickers)
    IN  /\ pc \in {"loop", "done"} =>
              /\ idx <= n
              /\ Len(progress) = idx + 1
              /\ \A k \in 1..idx :
                    /\ NumEq(progress[k + 1], <<k, n>>)
                    /\ NumLess(progress[k], progress[k + 1])
              /\ idx >= 1 =>
                    /\ fetchLog.cur[1].run = runs
                    /\ fetchLog.cur[1].pos = idx
                    /\ fetchLog.cur[1].ticker = tickers[idx][1]
        /\ pc = "loop" =>
              /\ idx < n => ENABLED Step
              /\ idx = n => ENABLED FinishRun
        /\ pc = "done" =>
              /\ idx = n
              /\ n >= 1 => NumEq(progress[Len(progress)], Num(1))
              /\ (outcome = "no_data") = (results = <<>>)
              /\ (outcome = "table") = (results # <<>>)

C9_Progress == []C9_ProgressState /\ ((pc = "loop") ~> (pc = "done"))

\* a run over two entries ended without a result
C9_Witness ==
    /\ pc = "done"
    /\ Len(tickers) = 2
    /\ Len(progress) = 3
    /\ outcome = "no_data"
    /\ Len(warnings) = 1

\* C10: after a provider call that raised, every fetch of that key that
\* starts within the TTL gets the empty frame without a provider call, and
\* the entry gets no result.
C10_FailedFetchCached ==
    (Len(fetchLog.cur) = 1 /\ Len(fetchLog.call) = 1) =>
        LET c == fetchLog.cur[1]
            x == fetchLog.call[1]
        IN  (x.raised /\ c.t - x.done < TTL) =>
                /\ ~c.external
                /\ c.value = EmptyFrame
                /\ c.kind = "none"

\* the second run after the failure, half a TTL later, still has no data
C10_Witness ==
    /\ Len(fetchLog.cur) = 1
    /\ Len(fetchLog.call) = 1
    /\ fetchLog.call[1].raised
    /\ ~fetchLog.cur[1].external
    /\ fetchLog.cur[1].run = 2
    /\ fetchLog.cur[1].t - fetchLog.call[1].done >= TickStep
    /\ fetchLog.cur[1].kind = "none"
    /\ pc = "done"
    /\ outcome = "no_data"

====
